---- MODULE Spec2Model ----
(***************************************************************************)
(* A model of stylo's domain classes (stylo/domain/square.py) and of its   *)
(* shape predicates (stylo/drawable/geometry.py).                          *)
(*                                                                         *)
(* Arguments are Python ints; the results of true division, of float       *)
(* literals and of arithmetic on them are Python floats (IEEE 754          *)
(* doubles), rounded as Python rounds them.                                *)
(* An operation that may raise returns a record with a field exc naming    *)
(* the exception ("none" when it returned normally).                       *)
(***************************************************************************)
EXTENDS Integers, Sequences, FiniteSets, TLC

VARIABLES dom, last, made, out, ell, preds, snap, res, edoms, ret

vars == <<dom, last, made, out, ell, preds, snap, res, edoms, ret>>

domVars == <<dom, last>>
shapeVars == <<made, out>>
ellVars == <<ell, preds, snap, res>>
edomVars == <<edoms, ret>>

(***************************************************************************)
(* Bounds of the model.                                                    *)
(***************************************************************************)
\* bounds written to a domain, and values given to a SquareDomain constructor
MaxVal == 2
\* shape parameters and sample points of the shape factories
MaxCoord == 2
\* predicates of one ellipse that are kept alive at once
MaxPreds == 1
\* domains returned by one ellipse that are kept alive at once
MaxDoms == 2

Vals == (-MaxVal)..MaxVal
Coords == (-MaxCoord)..MaxCoord
\* field values of the long-lived ellipse whose fields are mutated
FieldVals == {1, 2}
\* sample points offered to the predicates of that ellipse
PointVals == {0, 1, 2}
\* values written to the bounds of the domains of that ellipse
WriteVals == {-2, 0, 2}
\* centres of the ellipses whose test is called
CentreVals == 0..MaxCoord
\* semi-axes of those ellipses: the small ones, and a
\* pair of divisors whose quotients no double holds exactly
AxisVals == {-7, -2, -1, 0, 1, 2, 7}
\* radii of those ellipses
RadiusVals == Coords \cup {3}
\* points at which their test is called
FarCoords == Coords \cup {9, 12}

(***************************************************************************)
(* Natural numbers of any size, for the 53-bit significands of Python's    *)
(* floats: a sequence of limbs in base 2^15, lowest limb first, the        *)
(* highest limb not 0 (0 is the empty sequence).                           *)
(***************************************************************************)
Base == 2^15
LimbBits == 15

RECURSIVE Trim(_)
Trim(a) ==
    IF a # <<>> /\ a[Len(a)] = 0 THEN Trim(SubSeq(a, 1, Len(a) - 1)) ELSE a

RECURSIVE NatOf(_)
NatOf(n) == IF n = 0 THEN <<>> ELSE <<n % Base>> \o NatOf(n \div Base)

Limb(a, i) == IF i <= Len(a) THEN a[i] ELSE 0

RECURSIVE NatAddFrom(_, _, _, _)
NatAddFrom(a, b, i, carry) ==
    IF i > Len(a) /\ i > Len(b)
    THEN IF carry = 0 THEN <<>> ELSE <<carry>>
    ELSE LET t == Limb(a, i) + Limb(b, i) + carry
         IN  <<t % Base>> \o NatAddFrom(a, b, i + 1, t \div Base)

NatAdd(a, b) == NatAddFrom(a, b, 1, 0)

RECURSIVE NatSubFrom(_, _, _, _)
NatSubFrom(a, b, i, borrow) ==
    IF i > Len(a) THEN <<>>
    ELSE LET t == a[i] - Limb(b, i) - borrow
         IN  <<IF t < 0 THEN t + Base ELSE t>>
             \o NatSubFrom(a, b, i + 1, IF t < 0 THEN 1 ELSE 0)

\* a - b, for a >= b
NatSub(a, b) == Trim(NatSubFrom(a, b, 1, 0))

RECURSIVE NatCmpFrom(_, _, _)
NatCmpFrom(a, b, i) ==
    IF i = 0 THEN 0
    ELSE IF a[i] < b[i] THEN -1
    ELSE IF a[i] > b[i] THEN 1
    ELSE NatCmpFrom(a, b, i - 1)

\* -1, 0, 1 as a < b, a = b, a > b
NatCmp(a, b) ==
    IF Len(a) < Len(b) THEN -1
    ELSE IF Len(a) > Len(b) THEN 1
    ELSE NatCmpFrom(a, b, Len(a))

RECURSIVE NatMulFrom(_, _, _, _)
NatMulFrom(a, f, i, carry) ==
    IF i > Len(a)
    THEN IF carry = 0 THEN <<>> ELSE <<carry>>
    ELSE LET t == a[i] * f + carry
         IN  <<t % Base>> \o NatMulFrom(a, f, i + 1, t \div Base)

\* a * 2^k
NatShl(a, k) ==
    IF a = <<>> THEN <<>>
    ELSE [i \in 1..(k \div LimbBits) |-> 0] \o NatMulFrom(a, 2^(k % LimbBits), 1, 0)

RECURSIVE NatDivFrom(_, _, _, _)
NatDivFrom(a, q, i, rem) ==
    IF i = 0 THEN [q |-> <<>>, r |-> rem]
    ELSE LET cur == rem * Base + a[i]
             low == NatDivFrom(a, q, i - 1, cur % q)
         IN  [q |-> Append(low.q, cur \div q), r |-> low.r]

\* quotient q and remainder r of a by a divisor 0 < q < 2^16
NatDiv(a, q) ==
    LET d == NatDivFrom(a, q, Len(a), 0) IN [q |-> Trim(d.q), r |-> d.r]

\* floor(a / 2^k)
NatShr(a, k) ==
    IF k \div LimbBits >= Len(a) THEN <<>>
    ELSE NatDiv(SubSeq(a, k \div LimbBits + 1, Len(a)), 2^(k % LimbBits)).q

RECURSIVE BitLen(_)
BitLen(n) == IF n = 0 THEN 0 ELSE 1 + BitLen(n \div 2)

\* the number of binary digits of a
NatBitLen(a) ==
    IF a = <<>> THEN 0 ELSE LimbBits * (Len(a) - 1) + BitLen(a[Len(a)])

NatOdd(a) == a # <<>> /\ a[1] % 2 = 1

(***************************************************************************)
(* Python's float: an IEEE 754 double, here the record [neg, m, e] of      *)
(* value (-1)^neg * m * 2^e with 2^52 <= m < 2^53, or zero (m = 0, and     *)
(* -0.0 is taken for 0.0, to which it compares equal).  Every operation    *)
(* rounds its exact result to the nearest double, ties to the even         *)
(* significand.  The model's numbers stay far from the subnormal range     *)
(* and from overflow, which are left out.                                  *)
(***************************************************************************)
MantBits == 53

FloatZero == [neg |-> FALSE, m |-> <<>>, e |-> 0]

\* the double nearest to (-1)^neg * (n + s) * 2^e, where 0 < s < 1 when sticky
\* and s = 0 otherwise; n has more than MantBits digits when sticky
FloatRound(neg, n, e, sticky) ==
    IF n = <<>> THEN FloatZero
    ELSE LET bl == NatBitLen(n)
         IN  IF bl <= MantBits
             THEN [neg |-> neg, m |-> NatShl(n, MantBits - bl),
                   e |-> e - (MantBits - bl)]
             ELSE LET d == bl - MantBits
                      q == NatShr(n, d)
                      rem == NatSub(n, NatShl(q, d))
                      c == NatCmp(NatShl(rem, 1), NatShl(NatOf(1), d))
                      up == c > 0 \/ (c = 0 /\ (sticky \/ NatOdd(q)))
                      q1 == IF up THEN NatAdd(q, NatOf(1)) ELSE q
                  IN  IF NatBitLen(q1) > MantBits
                      THEN [neg |-> neg, m |-> NatShr(q1, 1), e |-> e + d + 1]
                      ELSE [neg |-> neg, m |-> q1, e |-> e + d]

\* float(n) for an int n
FloatOfInt(n) == FloatRound(n < 0, NatOf(IF n < 0 THEN -n ELSE n), 0, FALSE)

\* p / q for ints p and q # 0 (Python raises ZeroDivisionError for q = 0):
\* the quotient of the two ints, rounded once
FloatDiv(p, q) ==
    LET d == NatDiv(NatShl(NatOf(IF p < 0 THEN -p ELSE p), 5 * LimbBits),
                    IF q < 0 THEN -q ELSE q)
    IN  FloatRound((p < 0) # (q < 0), d.q, -(5 * LimbBits), d.r # 0)

FloatNeg(x) == IF x.m = <<>> THEN x ELSE [x EXCEPT !.neg = ~x.neg]

\* x + y
FloatAdd(x, y) ==
    IF x.m = <<>> THEN y
    ELSE IF y.m = <<>> THEN x
    ELSE LET e == IF x.e < y.e THEN x.e ELSE y.e
             nx == NatShl(x.m, x.e - e)
             ny == NatShl(y.m, y.e - e)
             c == NatCmp(nx, ny)
         IN  IF x.neg = y.neg THEN FloatRound(x.neg, NatAdd(nx, ny), e, FALSE)
             ELSE IF c = 0 THEN FloatZero
             ELSE IF c > 0 THEN FloatRound(x.neg, NatSub(nx, ny), e, FALSE)
             ELSE FloatRound(y.neg, NatSub(ny, nx), e, FALSE)

\* x - y
FloatSub(x, y) == FloatAdd(x, FloatNeg(y))

\* -1, 0, 1 as |x| < |y|, |x| = |y|, |x| > |y|
FloatCmpAbs(x, y) ==
    IF x.m = <<>> THEN (IF y.m = <<>> THEN 0 ELSE -1)
    ELSE IF y.m = <<>> THEN 1
    ELSE IF x.e < y.e THEN -1
    ELSE IF x.e > y.e THEN 1
    ELSE NatCmp(x.m, y.m)

\* x <= y
FloatLeq(x, y) ==
    IF x.neg = y.neg
    THEN IF x.neg THEN FloatCmpAbs(x, y) >= 0 ELSE FloatCmpAbs(x, y) <= 0
    ELSE x.neg

\* lower <= value <= upper, Python's chained comparison of floats with an int
Chain(lower, value, upper) ==
    FloatLeq(lower, FloatOfInt(value)) /\ FloatLeq(FloatOfInt(value), upper)

(***************************************************************************)
(* RectangularDomain: the base class of SquareDomain.  A bound is written  *)
(* through a property setter that rejects a value breaking min <= max on   *)
(* its own axis; the constructor rejects xmin > xmax and ymin > ymax and   *)
(* stores the four bounds in the new object itself, not through the        *)
(* setters (which UnitSquare replaces by ones that raise).                 *)
(***************************************************************************)
NoDomain == [cls |-> "none", xmin |-> 0, xmax |-> 0, ymin |-> 0, ymax |-> 0]

Returned(d) == [exc |-> "none", d |-> d]
Raised(e, d) == [exc |-> e, d |-> d]

RectangularDomain_init(cls, x_min, x_max, y_min, y_max) ==
    IF x_min > x_max \/ y_min > y_max
    THEN Raised("ValidationError", NoDomain)
    ELSE Returned([cls |-> cls, xmin |-> x_min, xmax |-> x_max,
                   ymin |-> y_min, ymax |-> y_max])

RectangularDomain_xmin(self, value) ==
    IF value > self.xmax THEN Raised("ValidationError", self)
    ELSE Returned([self EXCEPT !.xmin = value])

RectangularDomain_xmax(self, value) ==
    IF value < self.xmin THEN Raised("ValidationError", self)
    ELSE Returned([self EXCEPT !.xmax = value])

RectangularDomain_ymin(self, value) ==
    IF value > self.ymax THEN Raised("ValidationError", self)
    ELSE Returned([self EXCEPT !.ymin = value])

RectangularDomain_ymax(self, value) ==
    IF value < self.ymin THEN Raised("ValidationError", self)
    ELSE Returned([self EXCEPT !.ymax = value])

(***************************************************************************)
(* SquareDomain: each setter calls two setters of RectangularDomain in     *)
(* turn; an exception of the first ends the call before the second.        *)
(***************************************************************************)
SquareDomain_init(cls, x_min, x_max) ==
    RectangularDomain_init(cls, x_min, x_max, x_min, x_max)

\* a setter that forgets the other axis
Mut_xmin_uncoupled(self, value) == RectangularDomain_xmin(self, value)

SquareDomain_xmin(self, value) ==
    LET first == RectangularDomain_xmin(self, value)
    IN  IF first.exc # "none" THEN first
        ELSE RectangularDomain_ymin(first.d, value)

\* a setter that stores the other axis's field itself before the checked write
Mut_ymin_raw_first(self, value) ==
    RectangularDomain_ymin([self EXCEPT !.xmin = value], value)

SquareDomain_ymin(self, value) ==
    LET first == RectangularDomain_ymin(self, value)
    IN  IF first.exc # "none" THEN first
        ELSE RectangularDomain_xmin(first.d, value)

\* a setter whose second write goes to the wrong bound of the other axis
Mut_xmax_wrong_bound(self, value) ==
    LET first == RectangularDomain_xmax(self, value)
    IN  IF first.exc # "none" THEN first
        ELSE RectangularDomain_ymin(first.d, value)

SquareDomain_xmax(self, value) ==
    LET first == RectangularDomain_xmax(self, value)
    IN  IF first.exc # "none" THEN first
        ELSE RectangularDomain_ymax(first.d, value)

SquareDomain_ymax(self, value) ==
    LET first == RectangularDomain_ymax(self, value)
    IN  IF first.exc # "none" THEN first
        ELSE RectangularDomain_xmax(first.d, value)

(***************************************************************************)
(* UnitSquare: SquareDomain(0, 1) whose four setters raise.                *)
(***************************************************************************)
UnitSquare_init == SquareDomain_init("UnitSquare", 0, 1)

UnitSquare_xmax(self, value) == Raised("AttributeError", self)

UnitSquare_xmin(self, value) == Raised("AttributeError", self)

UnitSquare_ymin(self, value) == Raised("AttributeError", self)

\* a subclass that leaves one inherited setter in place
Mut_ymax_inherited(self, value) == SquareDomain_ymax(self, value)

UnitSquare_ymax(self, value) == Raised("AttributeError", self)

\* obj.<name> = value: the setter of the object's own class
SetAttr(self, name, value) ==
    IF self.cls = "UnitSquare"
    THEN CASE name = "xmin" -> UnitSquare_xmin(self, value)
           [] name = "xmax" -> UnitSquare_xmax(self, value)
           [] name = "ymin" -> UnitSquare_ymin(self, value)
           [] name = "ymax" -> UnitSquare_ymax(self, value)
    ELSE CASE name = "xmin" -> SquareDomain_xmin(self, value)
           [] name = "xmax" -> SquareDomain_xmax(self, value)
           [] name = "ymin" -> SquareDomain_ymin(self, value)
           [] name = "ymax" -> SquareDomain_ymax(self, value)

BoundNames == {"xmin", "xmax", "ymin", "ymax"}

NoCall == [op |-> "none", v |-> 0, exc |-> "none", pre |-> NoDomain]

(***************************************************************************)
(* The domain a caller holds: dom is the object, last the latest call on   *)
(* it (the attribute written, the value, the exception, the object before).*)
(***************************************************************************)
\* dom = SquareDomain(lo, hi); a failed construction leaves dom as it was
NewSquareDomain(lo, hi) ==
    LET r == SquareDomain_init("SquareDomain", lo, hi)
    IN  /\ dom' = IF r.exc = "none" THEN r.d ELSE dom
        /\ last' = [op |-> "SquareDomain", v |-> 0, exc |-> r.exc, pre |-> dom]
        /\ UNCHANGED <<shapeVars, ellVars, edomVars>>

\* dom = UnitSquare()
NewUnitSquare ==
    LET r == UnitSquare_init
    IN  /\ dom' = IF r.exc = "none" THEN r.d ELSE dom
        /\ last' = [op |-> "UnitSquare", v |-> 0, exc |-> r.exc, pre |-> dom]
        /\ UNCHANGED <<shapeVars, ellVars, edomVars>>

\* dom.<name> = value
WriteBound(name, value) ==
    /\ dom.cls # "none"
    /\ LET r == SetAttr(dom, name, value)
       IN  /\ dom' = r.d
           /\ last' = [op |-> name, v |-> value, exc |-> r.exc, pre |-> dom]
    /\ UNCHANGED <<shapeVars, ellVars, edomVars>>

NextDomain ==
    \/ \E lo \in Vals, hi \in Vals : NewSquareDomain(lo, hi)
    \/ NewUnitSquare
    \/ \E name \in BoundNames, value \in Vals : WriteBound(name, value)

(***************************************************************************)
(* Ellipse: its fields, and the closure its shape property returns.  The   *)
(* closure holds the locals r (self.r * self.r), a, b, x0, y0 of the call. *)
(***************************************************************************)
Ellipse_init(x, y, a, b, r) == [x |-> x, y |-> y, a |-> a, b |-> b, r |-> r]

Ellipse_shape(self) ==
    [fn |-> "ellipse", r |-> self.r * self.r, a |-> self.a, b |-> self.b,
     x0 |-> self.x, y0 |-> self.y]

Value(v) == [exc |-> "none", val |-> v]
Throws(e) == [exc |-> e, val |-> FALSE]

ellipse(c, x, y) ==
    LET xc == x - c.x0
        yc == y - c.y0
    IN  IF c.a = 0 \/ c.b = 0 THEN Throws("ZeroDivisionError")
        ELSE Value(FloatLeq(FloatAdd(FloatDiv(xc * xc, c.a),
                                     FloatDiv(yc * yc, c.b)),
                            FloatOfInt(c.r)))

(***************************************************************************)
(* rectangle and square.  args is the tuple of optional positional         *)
(* arguments the caller gave after the required ones: <<>>, <<pt>> or      *)
(* <<pt, fill>>; rectangle's signature supplies the defaults.              *)
(***************************************************************************)
\* the float literal 0.2: the double nearest to 1/5
DefaultPt == FloatDiv(1, 5)
DefaultFill == FALSE

rectangle(x0, y0, width, height, args) ==
    LET pt == IF Len(args) >= 1 THEN args[1] ELSE DefaultPt
        fill == IF Len(args) >= 2 THEN args[2] ELSE DefaultFill
        half_w == FloatDiv(width, 2)
        half_h == FloatDiv(height, 2)
    IN  [fn |-> IF fill THEN "rectangle" ELSE "rectangle_pt",
         left |-> FloatSub(FloatOfInt(x0), half_w),
         right |-> FloatAdd(FloatOfInt(x0), half_w),
         top |-> FloatAdd(FloatOfInt(y0), half_h),
         bottom |-> FloatSub(FloatOfInt(y0), half_h),
         pt |-> pt]

\* the inner function rectangle(x, y) of a closure c
rectangle_inner(c, x, y) ==
    Chain(c.left, x, c.right) /\ Chain(c.bottom, y, c.top)

small(c, x, y) ==
    /\ Chain(FloatAdd(c.left, c.pt), x, FloatSub(c.right, c.pt))
    /\ Chain(FloatAdd(c.bottom, c.pt), y, FloatSub(c.top, c.pt))

rectangle_pt(c, x, y) == rectangle_inner(c, x, y) /\ ~small(c, x, y)

\* a square that does not pass its optional arguments on
Mut_square_drops_args(x0, y0, size, args) == rectangle(x0, y0, size, size, <<>>)

square(x0, y0, size, args) == rectangle(x0, y0, size, size, args)

\* circle calls the name ellipse, which the module does not define
circle(x0, y0, r) == Throws("NameError")

\* pred(x, y) for a closure pred
Call(pred, x, y) ==
    CASE pred.fn = "ellipse" -> ellipse(pred, x, y)
      [] pred.fn = "rectangle" -> Value(rectangle_inner(pred, x, y))
      [] pred.fn = "rectangle_pt" -> Value(rectangle_pt(pred, x, y))

\* the thicknesses 0.2 and 1.0
PtVals == {FloatDiv(1, 5), FloatOfInt(1)}
OptArgs == {<<>>} \cup {<<pt>> : pt \in PtVals}
                  \cup {<<pt, fill>> : pt \in PtVals, fill \in BOOLEAN}

NoPred == [fn |-> "none"]
NoMade == [fn |-> "none", params |-> <<>>, args |-> <<>>, exc |-> "none",
           pred |-> NoPred]
NoOut == [called |-> FALSE, x |-> 0, y |-> 0, exc |-> "none", val |-> FALSE]

(***************************************************************************)
(* A caller of the shape factories: made is the latest predicate obtained  *)
(* (the factory, its arguments, the exception or the closure), out the     *)
(* latest call of that predicate at a point.                               *)
(***************************************************************************)
\* made = rectangle(x0, y0, width, height, *args)
MakeRectangle(x0, y0, width, height, args) ==
    /\ made' = [fn |-> "rectangle", params |-> <<x0, y0, width, height>>,
                args |-> args, exc |-> "none",
                pred |-> rectangle(x0, y0, width, height, args)]
    /\ out' = NoOut
    /\ UNCHANGED <<domVars, ellVars, edomVars>>

\* made = square(x0, y0, size, *args)
MakeSquare(x0, y0, size, args) ==
    /\ made' = [fn |-> "square", params |-> <<x0, y0, size>>,
                args |-> args, exc |-> "none",
                pred |-> square(x0, y0, size, args)]
    /\ out' = NoOut
    /\ UNCHANGED <<domVars, ellVars, edomVars>>

\* made = circle(x0, y0, r)
MakeCircle(x0, y0, r) ==
    LET c == circle(x0, y0, r)
    IN  /\ made' = [fn |-> "circle", params |-> <<x0, y0, r>>, args |-> <<>>,
                    exc |-> c.exc, pred |-> NoPred]
        /\ out' = NoOut
        /\ UNCHANGED <<domVars, ellVars, edomVars>>

\* made = Ellipse(x, y, a, b, r).shape
MakeEllipse(x, y, a, b, r) ==
    /\ made' = [fn |-> "Ellipse", params |-> <<x, y, a, b, r>>, args |-> <<>>,
                exc |-> "none", pred |-> Ellipse_shape(Ellipse_init(x, y, a, b, r))]
    /\ out' = NoOut
    /\ UNCHANGED <<domVars, ellVars, edomVars>>

\* out = made(x, y)
CallMade(x, y) ==
    /\ made.pred.fn # "none"
    /\ LET c == Call(made.pred, x, y)
       IN  out' = [called |-> TRUE, x |-> x, y |-> y, exc |-> c.exc, val |-> c.val]
    /\ UNCHANGED <<made, domVars, ellVars, edomVars>>

\* the caller lets go of the predicate and of its result
Release ==
    /\ made # NoMade
    /\ made' = NoMade
    /\ out' = NoOut
    /\ UNCHANGED <<domVars, ellVars, edomVars>>

\* the caller obtains one predicate at a time, and calls it once
Idle == made = NoMade
Uncalled == ~out.called

NextShapes ==
    \/ Idle /\ \E x0 \in Coords, y0 \in Coords, width \in Coords, height \in Coords,
                  args \in OptArgs : MakeRectangle(x0, y0, width, height, args)
    \/ Idle /\ \E x0 \in Coords, y0 \in Coords, size \in Coords, args \in OptArgs :
                  MakeSquare(x0, y0, size, args)
    \/ Idle /\ \E x0 \in Coords, y0 \in Coords, r \in Coords : MakeCircle(x0, y0, r)
    \/ Uncalled /\ \E x \in Coords, y \in Coords : CallMade(x, y)
    \/ Release

\* the caller of Ellipse(...).shape
NextEllipseTest ==
    \/ Idle /\ \E x \in CentreVals, y \in CentreVals, a \in AxisVals, b \in AxisVals,
                  r \in RadiusVals : MakeEllipse(x, y, a, b, r)
    \/ Uncalled /\ \E x \in FarCoords, y \in FarCoords : CallMade(x, y)
    \/ Release

(***************************************************************************)
(* One long-lived Ellipse whose fields the caller assigns: preds are the   *)
(* closures obtained from its shape property that are still alive, snap[i] *)
(* the fields as they were when preds[i] was obtained (history, not        *)
(* program state), res the latest call of one of them.                     *)
(***************************************************************************)
NoEllipse == [x |-> 0, y |-> 0, a |-> 0, b |-> 0, r |-> 0]
NoRes == [called |-> FALSE, i |-> 0, x |-> 0, y |-> 0, exc |-> "none", val |-> FALSE]
FieldNames == {"x", "y", "a", "b", "r"}

\* an inner function that reads the fields of the ellipse when it is called
Mut_shape_call_live(pred, self, x, y) == Call(Ellipse_shape(self), x, y)

\* pred(x, y), for a closure pred of the ellipse that is now self
shape_call(pred, self, x, y) == Call(pred, x, y)

\* a domain sized by the ellipse's radius
Mut_domain_from_radius(self) ==
    SquareDomain_init("SquareDomain", -self.r, self.r).d

\* the domain property: a new SquareDomain(-1, 1) at every access
Ellipse_domain(self) == SquareDomain_init("SquareDomain", -1, 1).d

\* ell = Ellipse(x, y, a, b, r)
NewEllipse(x, y, a, b, r) ==
    /\ ell = NoEllipse
    /\ ell' = Ellipse_init(x, y, a, b, r)
    /\ res' = NoRes
    /\ UNCHANGED <<preds, snap, domVars, shapeVars, edomVars>>

\* ell.<f> = v
SetField(f, v) ==
    /\ ell # NoEllipse
    /\ ell' = [ell EXCEPT ![f] = v]
    /\ res' = NoRes
    /\ UNCHANGED <<preds, snap, domVars, shapeVars, edomVars>>

\* preds.append(ell.shape)
AccessShape ==
    /\ ell # NoEllipse
    /\ Len(preds) < MaxPreds
    /\ preds' = Append(preds, Ellipse_shape(ell))
    /\ snap' = Append(snap, ell)
    /\ res' = NoRes
    /\ UNCHANGED <<ell, domVars, shapeVars, edomVars>>

\* the caller lets go of the oldest predicate
DropPred ==
    /\ preds # <<>>
    /\ preds' = Tail(preds)
    /\ snap' = Tail(snap)
    /\ res' = NoRes
    /\ UNCHANGED <<ell, domVars, shapeVars, edomVars>>

\* res = preds[i](x, y)
CallPred(i, x, y) ==
    /\ i \in 1..Len(preds)
    /\ LET c == shape_call(preds[i], ell, x, y)
       IN  res' = [called |-> TRUE, i |-> i, x |-> x, y |-> y,
                   exc |-> c.exc, val |-> c.val]
    /\ UNCHANGED <<ell, preds, snap, domVars, shapeVars, edomVars>>

\* the caller looks at one result at a time
NoResult == ~res.called

NextEllipse ==
    \/ \E x \in FieldVals, y \in FieldVals, a \in FieldVals, b \in FieldVals,
          r \in FieldVals : NewEllipse(x, y, a, b, r)
    \/ \E f \in FieldNames, v \in FieldVals : SetField(f, v)
    \/ AccessShape
    \/ DropPred
    \/ NoResult /\ \E i \in 1..MaxPreds, x \in PointVals, y \in PointVals :
                      CallPred(i, x, y)

(***************************************************************************)
(* The domains of that ellipse: edoms are the objects its domain property  *)
(* has returned, each written to by the caller afterwards; ret is the      *)
(* index of the object the latest access returned while it is untouched    *)
(* (0 otherwise).                                                          *)
(***************************************************************************)
\* edoms.append(ell.domain)
AccessDomain ==
    /\ ell # NoEllipse
    /\ Len(edoms) < MaxDoms
    /\ edoms' = Append(edoms, Ellipse_domain(ell))
    /\ ret' = Len(edoms) + 1
    /\ UNCHANGED <<ellVars, domVars, shapeVars>>

\* edoms[i].<name> = value
WriteReturned(i, name, value) ==
    /\ i \in 1..Len(edoms)
    /\ edoms' = [edoms EXCEPT ![i] = SetAttr(edoms[i], name, value).d]
    /\ ret' = IF ret = i THEN 0 ELSE ret
    /\ UNCHANGED <<ellVars, domVars, shapeVars>>

NextEllipseDomain ==
    \/ \E x \in FieldVals, y \in FieldVals, a \in FieldVals, b \in FieldVals,
          r \in FieldVals : NewEllipse(x, y, a, b, r)
    \/ \E f \in FieldNames, v \in FieldVals : SetField(f, v)
    \/ AccessDomain
    \/ \E i \in 1..MaxDoms, name \in BoundNames, value \in WriteVals :
          WriteReturned(i, name, value)

(***************************************************************************)
(* Specifications.                                                         *)
(***************************************************************************)
Init ==
    /\ dom = NoDomain
    /\ last = NoCall
    /\ made = NoMade
    /\ out = NoOut
    /\ ell = NoEllipse
    /\ preds = <<>>
    /\ snap = <<>>
    /\ res = NoRes
    /\ edoms = <<>>
    /\ ret = 0

\* the domain classes
Next == NextDomain

Spec == Init /\ [][Next]_vars

\* the shape factories
SpecShapes == Init /\ [][NextShapes]_vars

\* the test of an ellipse
SpecEllipseTest == Init /\ [][NextEllipseTest]_vars

\* one ellipse and its predicates
SpecEllipse == Init /\ [][NextEllipse]_vars

\* one ellipse and its domains
SpecEllipseDomain == Init /\ [][NextEllipseDomain]_vars

(***************************************************************************)
(* Properties of the domain classes (under Spec).                          *)
(***************************************************************************)
\* the latest call wrote a bound of a SquareDomain proper
WroteSquare == last.op \in BoundNames /\ last.pre.cls = "SquareDomain"

\* writing value to the bound name of d, and to its twin, breaks min <= max
WouldViolate(d, name, value) ==
    IF name \in {"xmin", "ymin"}
    THEN value > d.xmax \/ value > d.ymax
    ELSE value < d.xmin \/ value < d.ymin

\* C1: a SquareDomain has xmin = ymin and xmax = ymax after its construction
\* and after every write to a bound, accepted or rejected.
C1_SquareInvariant ==
    dom.cls = "SquareDomain" => dom.xmin = dom.ymin /\ dom.xmax = dom.ymax

C1_Witness ==
    /\ WroteSquare
    /\ last.op = "xmin"
    /\ last.exc = "none"
    /\ dom.xmin # last.pre.xmin

\* C2: a write to a bound of a SquareDomain that would break min <= max on
\* either axis raises and leaves the four bounds as they were.
C2_RejectedWriteChangesNothing ==
    (WroteSquare /\ WouldViolate(last.pre, last.op, last.v))
        => (last.exc # "none" /\ dom = last.pre)

C2_Witness ==
    /\ WroteSquare
    /\ last.op = "ymin"
    /\ last.v > last.pre.ymax
    /\ last.exc = "ValidationError"

\* C3: an accepted write of v to xmin or ymin of a SquareDomain leaves
\* xmin = ymin = v and the two maxima unchanged; an accepted write of v to
\* xmax or ymax leaves xmax = ymax = v and the two minima unchanged.
C3_CoupledWrite ==
    (WroteSquare /\ last.exc = "none") =>
        IF last.op \in {"xmin", "ymin"}
        THEN /\ dom.xmin = last.v /\ dom.ymin = last.v
             /\ dom.xmax = last.pre.xmax /\ dom.ymax = last.pre.ymax
        ELSE /\ dom.xmax = last.v /\ dom.ymax = last.v
             /\ dom.xmin = last.pre.xmin /\ dom.ymin = last.pre.ymin

C3_Witness ==
    /\ WroteSquare
    /\ last.op = "xmax"
    /\ last.exc = "none"
    /\ last.v # last.pre.xmax

\* C4: UnitSquare() constructs without error with bounds 0, 1, 0, 1; every
\* write to one of its bounds raises, and the bounds stay 0, 1, 0, 1.
C4_UnitSquareFrozen ==
    /\ last.op = "UnitSquare" => (last.exc = "none" /\ dom.cls = "UnitSquare")
    /\ dom.cls = "UnitSquare" =>
          /\ dom.xmin = 0 /\ dom.xmax = 1 /\ dom.ymin = 0 /\ dom.ymax = 1
          /\ last.op \in BoundNames => last.exc = "AttributeError"

C4_Witness ==
    /\ dom.cls = "UnitSquare"
    /\ last.op = "ymax"
    /\ last.v = 1
    /\ last.exc = "AttributeError"

(***************************************************************************)
(* Properties of the shape predicates (under SpecShapes).  The membership  *)
(* tests are restated over the integers, every inequality multiplied       *)
(* through by its denominators.                                            *)
(***************************************************************************)
\* left < x < right and bottom < y < top
InOpenRect(x0, y0, width, height, x, y) ==
    /\ 2 * x0 - width < 2 * x /\ 2 * x < 2 * x0 + width
    /\ 2 * y0 - height < 2 * y /\ 2 * y < 2 * y0 + height

\* left + 1/5 <= x <= right - 1/5 and bottom + 1/5 <= y <= top - 1/5
InInnerRect(x0, y0, width, height, x, y) ==
    /\ 10 * x0 - 5 * width + 2 <= 10 * x /\ 10 * x <= 10 * x0 + 5 * width - 2
    /\ 10 * y0 - 5 * height + 2 <= 10 * y /\ 10 * y <= 10 * y0 + 5 * height - 2

\* a and b are not 0 and (x - x0)^2 / a + (y - y0)^2 / b <= r^2
InEllipse(x0, y0, a, b, r, x, y) ==
    /\ a # 0
    /\ b # 0
    /\ (x - x0) * (x - x0) * a * b * b + (y - y0) * (y - y0) * b * a * a
          <= r * r * a * a * b * b

DefaultRectangleCalled ==
    made.fn = "rectangle" /\ made.args = <<>> /\ out.called

\* C5: the predicate of rectangle(x0, y0, width, height) is true
\* exactly at the points strictly inside the rectangle.
C5_StrictInterior ==
    DefaultRectangleCalled =>
        /\ out.exc = "none"
        /\ out.val = InOpenRect(made.params[1], made.params[2], made.params[3],
                                made.params[4], out.x, out.y)

EllipseCalled == made.fn = "Ellipse" /\ out.called

\* C6 (under SpecEllipseTest): the predicate of
\* Ellipse(x0, y0, a, b, r) returns true exactly when
\* (x - x0)^2 / a + (y - y0)^2 / b <= r^2, the bound included.
C6_EllipseTest ==
    EllipseCalled =>
        ((out.exc = "none" /\ out.val)
            <=> InEllipse(made.params[1], made.params[2], made.params[3],
                          made.params[4], made.params[5], out.x, out.y))

\* C7: circle(x0, y0, r) returns a predicate, true exactly when
\* (x - x0)^2 + (y - y0)^2 <= r^2.
C7_CircleTest ==
    made.fn = "circle" =>
        /\ made.exc = "none"
        /\ out.called =>
              out.val = InEllipse(made.params[1], made.params[2], 1, 1,
                                  made.params[3], out.x, out.y)

\* C8: the predicate of square(x0, y0, size, ...) returns what the predicate
\* of rectangle(x0, y0, size, size, ...) with the same optional arguments
\* returns at the same point.
C8_SquareIsRectangle ==
    (made.fn = "square" /\ out.called) =>
        LET c == Call(rectangle(made.params[1], made.params[2], made.params[3],
                                made.params[3], made.args), out.x, out.y)
        IN  out.exc = c.exc /\ out.val = c.val

\* a filled square, called at an inner point that its outline leaves out
C8_Witness ==
    /\ made.fn = "square"
    /\ out.called
    /\ Len(made.args) = 2
    /\ made.args[2]
    /\ InInnerRect(made.params[1], made.params[2], made.params[3],
                   made.params[3], out.x, out.y)
    /\ out.val

(***************************************************************************)
(* Properties of the long-lived ellipse.                                   *)
(***************************************************************************)
\* C9 (under SpecEllipseDomain): every access to the domain of an ellipse
\* returns a SquareDomain with xmin = ymin = -1 and xmax = ymax = 1,
\* whatever the fields of the ellipse and whatever was written to the
\* domains returned before.
C9_FreshDomain ==
    ret # 0 =>
        edoms[ret] = [cls |-> "SquareDomain", xmin |-> -1, xmax |-> 1,
                      ymin |-> -1, ymax |-> 1]

\* a second access, after a bound of the first domain was written and the
\* radius is not 1
C9_Witness ==
    /\ ret = 2
    /\ edoms[1].xmax # 1
    /\ ell.r # 1

\* C10 (under SpecEllipse): a predicate returns what the predicate of an
\* ellipse with the field values of the moment it was obtained returns,
\* also after the fields were assigned since.
C10_SnapshotAtAccess ==
    res.called =>
        LET old == Call(Ellipse_shape(snap[res.i]), res.x, res.y)
        IN  res.exc = old.exc /\ res.val = old.val

\* a call whose result differs from what the present fields would give
C10_Witness ==
    /\ res.called
    /\ snap[res.i] # ell
    /\ res.val # Call(Ellipse_shape(ell), res.x, res.y).val

====
